---------------------------- MODULE Spec2Model ----------------------------
(***************************************************************************)
(* A model of server.js: the Express server of POST /sync-variant-stock    *)
(* and GET /, its three helpers (getVariantGidByOptions,                   *)
(* getVariantInventoryLevel, setVariantCustomStock), the admin wrapper     *)
(* executeAdminQuery, and the e-commerce platform the helpers talk to.     *)
(*                                                                         *)
(* JavaScript strings are sequences of one-character strings, so that      *)
(* toLowerCase, template literals, String.includes, Number.toString and    *)
(* JSON.stringify are computed and not assumed.                            *)
(***************************************************************************)
EXTENDS Integers, Sequences, FiniteSets, TLC

VARIABLES
    field,              \* platform: variant id -> custom.store_stock ("" = no metafield)
    inventory,          \* platform: variant id -> inventoryLevels.nodes
    pc,                 \* per request: where its handler is suspended
    request,            \* per request: method, path and req.body
    metafieldOwnerGid,  \* per request: the handler's local of line 253
    inventorySourceGid, \* per request: the handler's local of line 258
    availableStock,     \* per request: the handler's local of line 262
    writeAnswer,        \* per request: the platform's answer to the mutation, on its way
    response,           \* per request: what res.json sent
    sent,               \* per request: number of responses sent
    calls,              \* per request: the outbound calls issued, in order
    levelsRead,         \* per request: the inventory levels its read was answered with
    transportError,     \* per request: the message of the axios error a call failed with
    fieldAfter,         \* per request: the target's field when its 200 was sent
    syncedBefore,       \* per request: the requests already answered 200 when it arrived
    lastApplied,        \* variant id -> the request whose write the platform applied last
    rvVariants,         \* resolver run: the variants the storefront returned
    rvOptions,          \* resolver run: the requested options
    rvResult            \* resolver run: the outcome of getVariantGidByOptions

vars ==
    <<field, inventory, pc, request, metafieldOwnerGid, inventorySourceGid,
      availableStock, writeAnswer, response, sent, calls, levelsRead,
      transportError, fieldAfter, syncedBefore, lastApplied, rvVariants, rvOptions, rvResult>>

serverVars ==
    <<field, inventory, pc, request, metafieldOwnerGid, inventorySourceGid,
      availableStock, writeAnswer, response, sent, calls, levelsRead,
      transportError, fieldAfter, syncedBefore, lastApplied>>

resolverVars == <<rvVariants, rvOptions, rvResult>>

----------------------------------------------------------------------------
(* Bounds *)

\* Requests the server receives in one run; they arrive in the order 1, 2, ...
NumRequests == 2

\* Resolver runs: variants in the storefront's answer, options per variant,
\* requested options.
MaxVariants == 2
MaxVariantOptions == 2
MaxRequested == 2

----------------------------------------------------------------------------
(* String literals of server.js *)

\* "-store"
StoreSuffix ==
    <<"-","s","t","o","r","e">>

\* "not found"
NotFound ==
    <<"n","o","t"," ","f","o","u","n","d">>

\* "No matching variant found for product handle '"
NoMatchPrefix ==
    <<"N","o"," ","m","a","t","c","h","i","n","g"," ","v","a","r","i","a","n",
      "t"," ","f","o","u","n","d"," ","f","o","r"," ","p","r","o","d","u","c",
      "t"," ","h","a","n","d","l","e"," ","'">>

\* "' with the given options."
NoMatchSuffix ==
    <<"'"," ","w","i","t","h"," ","t","h","e"," ","g","i","v","e","n"," ","o",
      "p","t","i","o","n","s",".">>

\* "Product variant GID "
GidPrefix ==
    <<"P","r","o","d","u","c","t"," ","v","a","r","i","a","n","t"," ","G","I",
      "D"," ">>

\* " not found."
GidSuffix ==
    <<" ","n","o","t"," ","f","o","u","n","d",".">>

\* "Failed to communicate with Shopify Admin API."
AdminFailed ==
    <<"F","a","i","l","e","d"," ","t","o"," ","c","o","m","m","u","n","i","c",
      "a","t","e"," ","w","i","t","h"," ","S","h","o","p","i","f","y"," ","A",
      "d","m","i","n"," ","A","P","I",".">>

\* "Shopify Metafield Update Error: "
MetafieldPrefix ==
    <<"S","h","o","p","i","f","y"," ","M","e","t","a","f","i","e","l","d"," ",
      "U","p","d","a","t","e"," ","E","r","r","o","r",":"," ">>

\* "An unknown error occurred."
UnknownError ==
    <<"A","n"," ","u","n","k","n","o","w","n"," ","e","r","r","o","r"," ","o",
      "c","c","u","r","r","e","d",".">>

\* "Missing or invalid 'handle' or 'selectedOptions' array in request body."
BadRequest ==
    <<"M","i","s","s","i","n","g"," ","o","r"," ","i","n","v","a","l","i","d",
      " ","'","h","a","n","d","l","e","'"," ","o","r"," ","'","s","e","l","e",
      "c","t","e","d","O","p","t","i","o","n","s","'"," ","a","r","r","a","y",
      " ","i","n"," ","r","e","q","u","e","s","t"," ","b","o","d","y",".">>

\* "Server error during stock synchronization."
ServerError ==
    <<"S","e","r","v","e","r"," ","e","r","r","o","r"," ","d","u","r","i","n",
      "g"," ","s","t","o","c","k"," ","s","y","n","c","h","r","o","n","i","z",
      "a","t","i","o","n",".">>

\* "Variant custom stock successfully synchronized from Shopify inventory to custom metafield."
Synced ==
    <<"V","a","r","i","a","n","t"," ","c","u","s","t","o","m"," ","s","t","o",
      "c","k"," ","s","u","c","c","e","s","s","f","u","l","l","y"," ","s","y",
      "n","c","h","r","o","n","i","z","e","d"," ","f","r","o","m"," ","S","h",
      "o","p","i","f","y"," ","i","n","v","e","n","t","o","r","y"," ","t","o",
      " ","c","u","s","t","o","m"," ","m","e","t","a","f","i","e","l","d",
      ".">>

\* "Hi!!!!!!"
Hi ==
    <<"H","i","!","!","!","!","!","!">>

\* "undefined"
Undefined ==
    <<"u","n","d","e","f","i","n","e","d">>

(* Messages of the axios errors a failed POST rejects with *)

\* "Network Error"
NetworkError ==
    <<"N","e","t","w","o","r","k"," ","E","r","r","o","r">>

\* "Request failed with status code 503"
Status503 ==
    <<"R","e","q","u","e","s","t"," ","f","a","i","l","e","d"," ","w","i","t",
      "h"," ","s","t","a","t","u","s"," ","c","o","d","e"," ","5","0","3">>

TransportErrors == {NetworkError, Status503}

\* executeAdminQuery rethrows one fixed message whatever the axios error was,
\* so one cause stands for the failures of the admin calls
AdminTransportErrors == {NetworkError}

----------------------------------------------------------------------------
(* JavaScript primitives the server uses *)

UpperCase ==
    <<"A","B","C","D","E","F","G","H","I","J","K","L","M","N","O","P","Q","R",
      "S","T","U","V","W","X","Y","Z">>

LowerCase ==
    <<"a","b","c","d","e","f","g","h","i","j","k","l","m","n","o","p","q","r",
      "s","t","u","v","w","x","y","z">>

Digits == <<"0","1","2","3","4","5","6","7","8","9">>

toLowerCaseChar(c) ==
    IF \E i \in 1..Len(UpperCase) : UpperCase[i] = c
    THEN LowerCase[CHOOSE i \in 1..Len(UpperCase) : UpperCase[i] = c]
    ELSE c

\* String.prototype.toLowerCase
toLowerCase(s) == [i \in 1..Len(s) |-> toLowerCaseChar(s[i])]

\* String.prototype.includes
includes(s, needle) ==
    \E i \in 0..(Len(s) - Len(needle)) : SubSeq(s, i + 1, i + Len(needle)) = needle

RECURSIVE NatToString(_)
NatToString(n) ==
    IF n < Len(Digits)
    THEN <<Digits[n + 1]>>
    ELSE Append(NatToString(n \div Len(Digits)), Digits[(n % Len(Digits)) + 1])

\* Number.prototype.toString, of an integer
toString(n) == IF n < 0 THEN <<"-">> \o NatToString(-n) ELSE NatToString(n)

\* the text JSON.stringify puts before a user error's message (field: null)
UserErrorOpen ==
    <<"{","\"","f","i","e","l","d","\"",":","n","u","l","l",",","\"","m","e",
      "s","s","a","g","e","\"",":","\"">>

\* and after it
UserErrorClose ==
    <<"\"","}">>

RECURSIVE StringifyFrom(_, _)
StringifyFrom(userErrors, i) ==
    IF i > Len(userErrors)
    THEN <<"]">>
    ELSE (IF i > 1 THEN <<",">> ELSE <<>>)
         \o UserErrorOpen \o userErrors[i].message \o UserErrorClose
         \o StringifyFrom(userErrors, i + 1)

\* JSON.stringify of a userErrors array
JSONstringify(userErrors) == <<"[">> \o StringifyFrom(userErrors, 1)

\* JavaScript values of a request body's members
undefined == [type |-> "undefined", v |-> <<>>]
String(s) == [type |-> "string", v |-> s]
Array(a) == [type |-> "array", v |-> a]
Object == [type |-> "object", v |-> <<>>]

\* ToBoolean: undefined and "" are falsy, arrays and objects truthy
Truthy(x) ==
    CASE x.type = "undefined" -> FALSE
      [] x.type = "string" -> x.v # <<>>
      [] OTHER -> TRUE

isArray(x) == x.type = "array"

\* A value inside a template literal
TemplateString(x) == IF x.type = "undefined" THEN Undefined ELSE x.v

----------------------------------------------------------------------------
(* getVariantGidByOptions, lines 133-183 *)

\* Lines 169-173 with the values compared as they are
OptionMatchesValueAsIs(variantOption, requestedOption) ==
    /\ toLowerCase(variantOption.name) = toLowerCase(requestedOption.name)
    /\ variantOption.value = requestedOption.value

\* Lines 169-173
OptionMatches(variantOption, requestedOption) ==
    /\ toLowerCase(variantOption.name) = toLowerCase(requestedOption.name)
    /\ toLowerCase(variantOption.value) = toLowerCase(requestedOption.value)

\* node.selectedOptions.some(...), lines 168-174: scans from index i
RECURSIVE some(_, _, _)
some(variantOptions, requestedOption, i) ==
    IF i > Len(variantOptions) THEN FALSE
    ELSE IF OptionMatches(variantOptions[i], requestedOption) THEN TRUE
    ELSE some(variantOptions, requestedOption, i + 1)

\* selectedOptions.every(...), lines 167-175: scans from index i
RECURSIVE every(_, _, _)
every(selectedOptions, node, i) ==
    IF i > Len(selectedOptions) THEN TRUE
    ELSE IF ~some(node.selectedOptions, selectedOptions[i], 1) THEN FALSE
    ELSE every(selectedOptions, node, i + 1)

\* variants.find(...), lines 165-176: the index of the first match, 0 for none
RECURSIVE find(_, _, _)
find(variants, selectedOptions, i) ==
    IF i > Len(variants) THEN 0
    ELSE IF every(selectedOptions, variants[i], 1) THEN i
    ELSE find(variants, selectedOptions, i + 1)

\* The error of line 179
NoMatchingVariant(handle) == NoMatchPrefix \o handle \o NoMatchSuffix

\* Lines 163-182, on the variants of the storefront's answer: the id
\* returned, or the message of the error thrown
MatchVariant(handle, selectedOptions, variants) ==
    LET matchingVariant == find(variants, selectedOptions, 1)
    IN  IF matchingVariant = 0
        THEN [ok |-> FALSE, id |-> <<>>, message |-> NoMatchingVariant(handle)]
        ELSE [ok |-> TRUE, id |-> variants[matchingVariant].id, message |-> <<>>]

\* Lines 152-182, given the storefront's answer: the axios.post of line 152
\* is in no try block, so the error it rejects with is thrown as it is
getVariantGidByOptions(handle, selectedOptions, answer) ==
    IF answer.error # <<>>
    THEN [ok |-> FALSE, id |-> <<>>, message |-> answer.error]
    ELSE MatchVariant(handle, selectedOptions, answer.variants)

----------------------------------------------------------------------------
(* executeAdminQuery, lines 41-65, and getVariantInventoryLevel, lines 76-125 *)

\* level.quantities.find(q => q.name === "available"), lines 116-118
RECURSIVE findAvailable(_, _)
findAvailable(quantities, i) ==
    IF i > Len(quantities) THEN 0
    ELSE IF quantities[i].name = "available" THEN i
    ELSE findAvailable(quantities, i + 1)

\* The loop of lines 114-122, from level i on
RECURSIVE totalFrom(_, _, _)
totalFrom(inventoryLevels, i, totalAvailableStock) ==
    IF i > Len(inventoryLevels) THEN totalAvailableStock
    ELSE LET availableQuantityNode == findAvailable(inventoryLevels[i].quantities, 1)
         IN  totalFrom(inventoryLevels, i + 1,
                       IF availableQuantityNode # 0
                       THEN totalAvailableStock
                            + inventoryLevels[i].quantities[availableQuantityNode].quantity
                       ELSE totalAvailableStock)

\* The error of line 102
VariantNotFound(variantGid) == GidPrefix \o variantGid \o GidSuffix

\* The catch of lines 53-64: whatever axios rejected with, this is thrown
executeAdminQueryError(e) == AdminFailed

\* Lines 95-124, given the admin API's answer
getVariantInventoryLevel(variantGid, answer) ==
    IF answer.error # <<>>
    THEN [ok |-> FALSE, total |-> 0, message |-> executeAdminQueryError(answer.error)]
    ELSE IF ~answer.found
    THEN [ok |-> FALSE, total |-> 0, message |-> VariantNotFound(variantGid)]
    ELSE IF Len(answer.nodes) = 0
    THEN [ok |-> TRUE, total |-> 0, message |-> <<>>]
    ELSE [ok |-> TRUE, total |-> totalFrom(answer.nodes, 1, 0), message |-> <<>>]

----------------------------------------------------------------------------
(* setVariantCustomStock, lines 191-231 *)

\* The mutation's variables, lines 211-219
MetafieldInput(metafieldOwnerGid_, newQuantity) ==
    [ownerId |-> metafieldOwnerGid_, value |-> toString(newQuantity)]

\* The error of lines 224-227
MetafieldUpdateError(userErrors) == MetafieldPrefix \o JSONstringify(userErrors)

\* Line 223 with the length compared to 1
HasSeveralUserErrors(answer) == answer.hasResult /\ Len(answer.userErrors) > 1

\* Line 223: mutationResult?.userErrors.length > 0
HasUserErrors(answer) == answer.hasResult /\ Len(answer.userErrors) > 0

\* Lines 210-230, given the admin API's answer
setVariantCustomStock(newQuantity, answer) ==
    IF answer.error # <<>>
    THEN [ok |-> FALSE, newStock |-> 0,
          message |-> executeAdminQueryError(answer.error)]
    ELSE IF HasUserErrors(answer)
    THEN [ok |-> FALSE, newStock |-> 0,
          message |-> MetafieldUpdateError(answer.userErrors)]
    ELSE [ok |-> TRUE, newStock |-> newQuantity, message |-> <<>>]

----------------------------------------------------------------------------
(* The platform: the products the storefront API serves, the inventory the *)
(* admin API reads, and the answers it can give.                           *)

SzM == [name |-> <<"S","z">>, value |-> <<"M">>]
SzL == [name |-> <<"S","z">>, value |-> <<"L">>]

HandleT == <<"t">>
HandleTStore == <<"t","-","s","t","o","r","e">>

IdV0 == <<"v","0">>
IdV1 == <<"v","1">>
IdS0 == <<"s","0">>
IdS1 == <<"s","1">>

VariantIds == {IdV0, IdV1, IdS0, IdS1}

\* product(handle).variants.edges of the query of lines 134-150; a handle
\* with no product gives no edges (line 163).
StorefrontVariants(handle) ==
    CASE handle = HandleT ->
           <<[id |-> IdV0, selectedOptions |-> <<SzL>>],
             [id |-> IdV1, selectedOptions |-> <<SzM>>]>>
      [] handle = HandleTStore ->
           <<[id |-> IdS0, selectedOptions |-> <<SzL>>],
             [id |-> IdS1, selectedOptions |-> <<SzM>>]>>
      [] OTHER -> <<>>

\* inventoryLevels.nodes of the query of lines 77-93: three locations, one
\* with another quantity listed first, one without an "available" entry,
\* one oversold.
Stocked ==
    <<[quantities |-> <<[name |-> "committed", quantity |-> 4],
                        [name |-> "available", quantity |-> 15]>>],
      [quantities |-> <<>>],
      [quantities |-> <<[name |-> "available", quantity |-> -2]>>]>>

LevelLists == {<<>>, Stocked}

\* userErrors the metafieldsSet mutation can answer with (lines 202-205)
OwnerNotFound ==
    [message |-> <<"O","w","n","e","r"," ","n","o","t"," ","f","o","u","n","d">>]

InvalidValue ==
    [message |-> <<"I","n","v","a","l","i","d"," ","v","a","l","u","e">>]

UserErrorLists == {<<InvalidValue>>, <<InvalidValue, OwnerNotFound>>}

----------------------------------------------------------------------------
(* The requests the server is sent *)

Requests == 1..NumRequests

Option(name, value) == [name |-> name, value |-> value]

Body(handle, selectedOptions, decreaseBy) ==
    [handle |-> handle, selectedOptions |-> selectedOptions, decreaseBy |-> decreaseBy]

szm == Option(<<"s","z">>, <<"m">>)
szXL == Option(<<"s","z">>, <<"X","L">>)

\* req.body of the requests sent; decreaseBy is 0 where the body has none
SyncBodies ==
    { Body(String(HandleT), Array(<<szm>>), 0),         \* both variants resolve
      Body(String(HandleT), Array(<<szXL>>), 0),        \* no variant matches
      Body(String(HandleTStore), Array(<<szm>>), 0),    \* no "-store" product
      Body(undefined, Array(<<szm>>), 0),               \* no handle
      Body(String(HandleT), undefined, 0),              \* no selectedOptions
      Body(String(HandleT), Object, 0) }                \* selectedOptions no array

DecreaseBodies == { Body(String(HandleT), Array(<<szm>>), 3) }

Incoming ==
    {[method |-> "POST", path |-> "/sync-variant-stock", body |-> b] : b \in SyncBodies}
    \cup
    {[method |-> "POST", path |-> "/decrease-variant-stock", body |-> b] :
        b \in DecreaseBodies}
    \cup
    {[method |-> "GET", path |-> "/", body |-> Body(undefined, undefined, 0)]}

NoRequest == [method |-> "", path |-> "", body |-> Body(undefined, undefined, 0)]

----------------------------------------------------------------------------
(* The server: routing, the handlers and their catch block *)

\* The routes with the sync handler also serving /decrease-variant-stock
RouteDecreaseToSync(method, path) ==
    CASE method = "POST" /\ path \in {"/sync-variant-stock", "/decrease-variant-stock"}
           -> "sync"
      [] method = "GET" /\ path = "/" -> "root"
      [] OTHER -> "none"

\* app.post of line 238 and app.get of line 303: the handler of a request,
\* "none" when no route matches
Route(method, path) ==
    CASE method = "POST" /\ path = "/sync-variant-stock" -> "sync"
      [] method = "GET" /\ path = "/" -> "root"
      [] OTHER -> "none"

\* Line 243 without its Array.isArray test
InvalidWithoutArrayTest(body) ==
    \/ ~Truthy(body.handle)
    \/ ~Truthy(body.selectedOptions)

\* Line 243
Invalid(body) ==
    \/ ~Truthy(body.handle)
    \/ ~Truthy(body.selectedOptions)
    \/ ~isArray(body.selectedOptions)

\* Line 249 without the suffix
StoreHandleWithoutSuffix(handle) == handle

\* Line 249
StoreHandle(handle) == handle \o StoreSuffix

NoResponse ==
    [status |-> 0, message |-> <<>>, error |-> <<>>, details |-> <<>>,
     metafieldOwnerGid |-> <<>>, newStock |-> 0]

\* Lines 244-246
BadRequestResponse == [NoResponse EXCEPT !.status = 400, !.error = BadRequest]

\* Lines 268-275
SyncedResponse(owner, result) ==
    [NoResponse EXCEPT !.status = 200, !.message = Synced,
                       !.metafieldOwnerGid = owner, !.newStock = result.newStock]

\* Lines 304-306
RootResponse == [NoResponse EXCEPT !.status = 200, !.message = Hi]

\* No route matched: Express answers 404 itself
DefaultResponse == [NoResponse EXCEPT !.status = 404]

\* The catch block, lines 276-292
Catch(message) ==
    LET errorMessage == IF message = <<>> THEN UnknownError ELSE message
    IN  IF includes(errorMessage, NotFound)
        THEN [NoResponse EXCEPT !.status = 404, !.error = errorMessage]
        ELSE [NoResponse EXCEPT !.status = 500, !.error = ServerError,
                                !.details = errorMessage]

\* The outbound calls, as the log records them
StorefrontCall(handle) ==
    [api |-> "storefront", op |-> "getProduct", arg |-> handle, value |-> <<>>]

InventoryCall(variantGid) ==
    [api |-> "admin", op |-> "getVariantInventory", arg |-> variantGid, value |-> <<>>]

MetafieldsSetCall(input) ==
    [api |-> "admin", op |-> "metafieldsSet", arg |-> input.ownerId, value |-> input.value]

\* Line 266 with the source variant passed as the owner
WriteArgsToSource(owner, source, stock) == [owner |-> source, quantity |-> stock]

\* Line 266: the arguments the handler passes to setVariantCustomStock, of
\* its locals metafieldOwnerGid, inventorySourceGid and availableStock
WriteArgs(owner, source, stock) == [owner |-> owner, quantity |-> stock]

\* What the storefront answers to the query for a handle: its variants,
\* or the POST fails
StorefrontAnswers(handle) ==
    {[error |-> <<>>, variants |-> StorefrontVariants(handle)]}
    \cup {[error |-> e, variants |-> <<>>] : e \in TransportErrors}

\* What the admin API answers to the inventory query: the variant's levels,
\* no productVariant, or the POST fails
InventoryAnswers(levels) ==
    {[error |-> <<>>, found |-> TRUE, nodes |-> levels],
     [error |-> <<>>, found |-> FALSE, nodes |-> <<>>]}
    \cup {[error |-> e, found |-> FALSE, nodes |-> <<>>] : e \in AdminTransportErrors}

\* Its answers to a mutation it has carried out: no userErrors, or the POST
\* fails after all
AppliedAnswers ==
    {[error |-> <<>>, hasResult |-> TRUE, userErrors |-> <<>>]}
    \cup {[error |-> e, hasResult |-> FALSE, userErrors |-> <<>>] : e \in AdminTransportErrors}

\* Its answers to a mutation it has not carried out: userErrors, a 200 with
\* top-level errors and no data, or the POST fails
DroppedAnswers ==
    {[error |-> <<>>, hasResult |-> TRUE, userErrors |-> u] : u \in UserErrorLists}
    \cup {[error |-> <<>>, hasResult |-> FALSE, userErrors |-> <<>>]}
    \cup {[error |-> e, hasResult |-> FALSE, userErrors |-> <<>>] : e \in AdminTransportErrors}

NoAnswer == [error |-> <<>>, hasResult |-> FALSE, userErrors |-> <<>>]

\* res.json: the response is sent and the handler is over
Respond(r, resp, e) ==
    /\ response' = [response EXCEPT ![r] = resp]
    /\ sent' = [sent EXCEPT ![r] = @ + 1]
    /\ pc' = [pc EXCEPT ![r] = "done"]
    /\ transportError' = [transportError EXCEPT ![r] = e]
    /\ fieldAfter' = [fieldAfter EXCEPT ![r] =
            IF resp.status = 200 /\ resp.metafieldOwnerGid # <<>>
            THEN field[resp.metafieldOwnerGid] ELSE <<>>]

\* A request arrives: requests are numbered in the order of their arrival
Arrive(r, rq) ==
    /\ pc[r] = "idle"
    /\ \A q \in Requests : q < r => pc[q] # "idle"
    /\ request' = [request EXCEPT ![r] = rq]
    /\ syncedBefore' = [syncedBefore EXCEPT ![r] =
            {q \in Requests : pc[q] = "done" /\ response[q].status = 200}]

\* GET /, lines 303-307
ReceiveRoot(r) ==
    \E rq \in Incoming :
        /\ Route(rq.method, rq.path) = "root"
        /\ Arrive(r, rq)
        /\ Respond(r, RootResponse, <<>>)
        /\ UNCHANGED <<field, inventory, metafieldOwnerGid, inventorySourceGid,
                       availableStock, writeAnswer, calls, levelsRead, lastApplied>>
        /\ UNCHANGED resolverVars

\* A request no route matches
ReceiveUnrouted(r) ==
    \E rq \in Incoming :
        /\ Route(rq.method, rq.path) = "none"
        /\ Arrive(r, rq)
        /\ Respond(r, DefaultResponse, <<>>)
        /\ UNCHANGED <<field, inventory, metafieldOwnerGid, inventorySourceGid,
                       availableStock, writeAnswer, calls, levelsRead, lastApplied>>
        /\ UNCHANGED resolverVars

\* POST /sync-variant-stock, lines 238-253: validation, then the first
\* storefront query is sent and the handler waits for its answer
ReceiveSync(r) ==
    \E rq \in Incoming :
        /\ Route(rq.method, rq.path) = "sync"
        /\ Arrive(r, rq)
        /\ \/ /\ Invalid(rq.body)
              /\ Respond(r, BadRequestResponse, <<>>)
              /\ UNCHANGED calls
           \/ /\ ~Invalid(rq.body)
              /\ calls' = [calls EXCEPT
                      ![r] = <<StorefrontCall(TemplateString(rq.body.handle))>>]
              /\ pc' = [pc EXCEPT ![r] = "awaitTarget"]
              /\ UNCHANGED <<response, sent, fieldAfter, transportError>>
        /\ UNCHANGED <<field, inventory, metafieldOwnerGid, inventorySourceGid,
                       availableStock, writeAnswer, levelsRead, lastApplied>>
        /\ UNCHANGED resolverVars

\* The storefront answers the first query: line 253 returns and line 258
\* sends the second query, or it throws into the catch block
TargetResolved(r) ==
    /\ pc[r] = "awaitTarget"
    /\ LET handle == TemplateString(request[r].body.handle)
           selectedOptions == request[r].body.selectedOptions.v
       IN  \E answer \in StorefrontAnswers(handle) :
             LET gid == getVariantGidByOptions(handle, selectedOptions, answer)
             IN  \/ /\ ~gid.ok
                    /\ Respond(r, Catch(gid.message), answer.error)
                    /\ UNCHANGED <<metafieldOwnerGid, calls>>
                 \/ /\ gid.ok
                    /\ metafieldOwnerGid' = [metafieldOwnerGid EXCEPT ![r] = gid.id]
                    /\ calls' = [calls EXCEPT
                            ![r] = Append(@, StorefrontCall(StoreHandle(handle)))]
                    /\ pc' = [pc EXCEPT ![r] = "awaitSource"]
                    /\ UNCHANGED <<response, sent, fieldAfter, transportError>>
    /\ UNCHANGED <<field, inventory, request, inventorySourceGid, availableStock,
                   writeAnswer, levelsRead, syncedBefore, lastApplied>>
    /\ UNCHANGED resolverVars

\* The storefront answers the second query: line 258 returns and line 262
\* sends the inventory query, or it throws into the catch block
SourceResolved(r) ==
    /\ pc[r] = "awaitSource"
    /\ LET storeHandle == StoreHandle(TemplateString(request[r].body.handle))
           selectedOptions == request[r].body.selectedOptions.v
       IN  \E answer \in StorefrontAnswers(storeHandle) :
             LET gid == getVariantGidByOptions(storeHandle, selectedOptions, answer)
             IN  \/ /\ ~gid.ok
                    /\ Respond(r, Catch(gid.message), answer.error)
                    /\ UNCHANGED <<inventorySourceGid, calls>>
                 \/ /\ gid.ok
                    /\ inventorySourceGid' = [inventorySourceGid EXCEPT ![r] = gid.id]
                    /\ calls' = [calls EXCEPT ![r] = Append(@, InventoryCall(gid.id))]
                    /\ pc' = [pc EXCEPT ![r] = "awaitInventory"]
                    /\ UNCHANGED <<response, sent, fieldAfter, transportError>>
    /\ UNCHANGED <<field, inventory, request, metafieldOwnerGid, availableStock,
                   writeAnswer, levelsRead, syncedBefore, lastApplied>>
    /\ UNCHANGED resolverVars

\* The admin API answers the inventory query: line 262 returns and line 266
\* sends the mutation, or it throws into the catch block
InventoryRead(r) ==
    /\ pc[r] = "awaitInventory"
    /\ \E answer \in InventoryAnswers(inventory[inventorySourceGid[r]]) :
         LET level == getVariantInventoryLevel(inventorySourceGid[r], answer)
         IN  \/ /\ ~level.ok
                /\ Respond(r, Catch(level.message), answer.error)
                /\ UNCHANGED <<availableStock, calls, levelsRead>>
             \/ /\ level.ok
                /\ availableStock' = [availableStock EXCEPT ![r] = level.total]
                /\ levelsRead' = [levelsRead EXCEPT ![r] = answer.nodes]
                /\ LET args == WriteArgs(metafieldOwnerGid[r], inventorySourceGid[r],
                                         level.total)
                   IN calls' = [calls EXCEPT ![r] =
                         Append(@, MetafieldsSetCall(
                                     MetafieldInput(args.owner, args.quantity)))]
                /\ pc' = [pc EXCEPT ![r] = "awaitWrite"]
                /\ UNCHANGED <<response, sent, fieldAfter, transportError>>
    /\ UNCHANGED <<field, inventory, request, metafieldOwnerGid, inventorySourceGid,
                   writeAnswer, syncedBefore, lastApplied>>
    /\ UNCHANGED resolverVars

\* The platform handles the mutation sent at line 210: it sets the field of
\* the input's owner, or it does not; its answer is on its way to the server
MetafieldsSet(r) ==
    /\ pc[r] = "awaitWrite"
    /\ LET input == calls[r][Len(calls[r])]
       IN  \/ /\ field' = [field EXCEPT ![input.arg] = input.value]
              /\ lastApplied' = [lastApplied EXCEPT ![input.arg] = r]
              /\ \E answer \in AppliedAnswers :
                    writeAnswer' = [writeAnswer EXCEPT ![r] = answer]
           \/ /\ UNCHANGED <<field, lastApplied>>
              /\ \E answer \in DroppedAnswers :
                    writeAnswer' = [writeAnswer EXCEPT ![r] = answer]
    /\ pc' = [pc EXCEPT ![r] = "awaitWriteAnswer"]
    /\ UNCHANGED <<inventory, request, metafieldOwnerGid, inventorySourceGid,
                   availableStock, response, sent, calls, levelsRead,
                   transportError, fieldAfter, syncedBefore>>
    /\ UNCHANGED resolverVars

\* The answer arrives: line 266 returns and lines 268-275 answer 200, or it
\* throws into the catch block
WriteReturned(r) ==
    /\ pc[r] = "awaitWriteAnswer"
    /\ LET updateResult == setVariantCustomStock(availableStock[r], writeAnswer[r])
       IN  \/ /\ updateResult.ok
              /\ Respond(r, SyncedResponse(metafieldOwnerGid[r], updateResult),
                         writeAnswer[r].error)
           \/ /\ ~updateResult.ok
              /\ Respond(r, Catch(updateResult.message), writeAnswer[r].error)
    /\ UNCHANGED <<field, inventory, request, metafieldOwnerGid, inventorySourceGid,
                   availableStock, writeAnswer, calls, levelsRead, syncedBefore,
                   lastApplied>>
    /\ UNCHANGED resolverVars

\* The platform's stock of the source variant sells out: its inventory
\* levels are gone
SellOut ==
    /\ inventory[IdS1] # <<>>
    /\ inventory' = [inventory EXCEPT ![IdS1] = <<>>]
    /\ UNCHANGED <<field, pc, request, metafieldOwnerGid, inventorySourceGid,
                   availableStock, writeAnswer, response, sent, calls,
                   levelsRead, transportError, fieldAfter, syncedBefore, lastApplied>>
    /\ UNCHANGED resolverVars

NotResolved == [ran |-> FALSE, ok |-> FALSE, id |-> <<>>, message |-> <<>>]

\* The server holds no state of its own (lines 8-38).  On the platform no
\* variant has the metafield yet, and the source is stocked or has no levels
InitServer ==
    /\ field = [id \in VariantIds |-> <<>>]
    /\ inventory \in {[id \in VariantIds |-> IF id = IdS1 THEN l ELSE <<>>] :
                        l \in LevelLists}
    /\ pc = [r \in Requests |-> "idle"]
    /\ request = [r \in Requests |-> NoRequest]
    /\ metafieldOwnerGid = [r \in Requests |-> <<>>]
    /\ inventorySourceGid = [r \in Requests |-> <<>>]
    /\ availableStock = [r \in Requests |-> 0]
    /\ writeAnswer = [r \in Requests |-> NoAnswer]
    /\ response = [r \in Requests |-> NoResponse]
    /\ sent = [r \in Requests |-> 0]
    /\ calls = [r \in Requests |-> <<>>]
    /\ levelsRead = [r \in Requests |-> <<>>]
    /\ transportError = [r \in Requests |-> <<>>]
    /\ fieldAfter = [r \in Requests |-> <<>>]
    /\ syncedBefore = [r \in Requests |-> {}]
    /\ lastApplied = [id \in VariantIds |-> 0]

Init ==
    /\ InitServer
    /\ rvVariants = <<>>
    /\ rvOptions = <<>>
    /\ rvResult = NotResolved

Next ==
    \/ \E r \in Requests :
         \/ ReceiveSync(r)
         \/ ReceiveRoot(r)
         \/ ReceiveUnrouted(r)
         \/ TargetResolved(r)
         \/ SourceResolved(r)
         \/ InventoryRead(r)
         \/ MetafieldsSet(r)
         \/ WriteReturned(r)
    \/ SellOut

Spec == Init /\ [][Next]_vars

----------------------------------------------------------------------------
(* Runs of getVariantGidByOptions alone, over every answer of the           *)
(* storefront with at most MaxVariants variants                             *)

ResolverHandle == <<"p">>

VariantOptionChoices ==
    { Option(<<"S","z">>, <<"M">>), Option(<<"C","l">>, <<"m">>) }

RequestedOptionChoices ==
    { Option(<<"s","z">>, <<"m">>), Option(<<"S","z">>, <<"L">>),
      Option(<<"c","l">>, <<"M">>) }

SeqsUpTo(S, n) == UNION {[1..k -> S] : k \in 0..n}

\* Variant i of an answer has the id "g" followed by i
VariantLists ==
    { [i \in 1..Len(os) |-> [id |-> <<"g">> \o toString(i), selectedOptions |-> os[i]]] :
        os \in SeqsUpTo(SeqsUpTo(VariantOptionChoices, MaxVariantOptions), MaxVariants) }

InitResolve ==
    /\ InitServer
    /\ inventory = [id \in VariantIds |-> <<>>]
    /\ rvVariants \in VariantLists
    /\ rvOptions \in SeqsUpTo(RequestedOptionChoices, MaxRequested)
    /\ rvResult = NotResolved

Resolve ==
    /\ ~rvResult.ran
    /\ LET gid == MatchVariant(ResolverHandle, rvOptions, rvVariants)
       IN rvResult' = [ran |-> TRUE, ok |-> gid.ok, id |-> gid.id,
                       message |-> gid.message]
    /\ UNCHANGED <<rvVariants, rvOptions>>
    /\ UNCHANGED serverVars

NextResolve == Resolve

SpecResolve == InitResolve /\ [][NextResolve]_vars

----------------------------------------------------------------------------
(* The claims *)

Done(r) == pc[r] = "done"

IsSync(r) == request[r].method = "POST" /\ request[r].path = "/sync-variant-stock"

IsDecrease(r) ==
    request[r].method = "POST" /\ request[r].path = "/decrease-variant-stock"

\* Two characters are the same letter in either case
SameLetter(c, d) ==
    \/ c = d
    \/ \E k \in 1..Len(UpperCase) : {c, d} = {UpperCase[k], LowerCase[k]}

EqualIgnoringCase(a, b) ==
    /\ Len(a) = Len(b)
    /\ \A i \in 1..Len(a) : SameLetter(a[i], b[i])

\* The variant has, for every requested option, an option of the same name
\* and value up to case
Satisfies(variant, requested) ==
    \A j \in 1..Len(requested) :
        \E k \in 1..Len(variant.selectedOptions) :
            /\ EqualIgnoringCase(variant.selectedOptions[k].name, requested[j].name)
            /\ EqualIgnoringCase(variant.selectedOptions[k].value, requested[j].value)

Satisfying(variants, requested) ==
    {i \in 1..Len(variants) : Satisfies(variants[i], requested)}

Earliest(S) == CHOOSE i \in S : \A j \in S : i <= j

\* What one inventory level adds to the total: its "available" quantity, 0
\* when it lists none
Contribution(level) ==
    LET at == {i \in 1..Len(level.quantities) : level.quantities[i].name = "available"}
    IN  IF at = {} THEN 0 ELSE level.quantities[Earliest(at)].quantity

RECURSIVE SumAvailable(_)
SumAvailable(levels) ==
    IF levels = <<>> THEN 0
    ELSE Contribution(Head(levels)) + SumAvailable(Tail(levels))

\* s occurs in text
RECURSIVE Contains(_, _)
Contains(text, s) ==
    IF Len(text) < Len(s) THEN FALSE
    ELSE IF SubSeq(text, 1, Len(s)) = s THEN TRUE
    ELSE Contains(Tail(text), s)

\* The number a field's text stands for
RECURSIVE ParseNat(_)
ParseNat(s) ==
    IF s = <<>> THEN 0
    ELSE ParseNat(SubSeq(s, 1, Len(s) - 1)) * 10
         + ((CHOOSE k \in 1..Len(Digits) : Digits[k] = s[Len(s)]) - 1)

\* No other request has arrived yet
RanAlone(r) == \A q \in Requests \ {r} : pc[q] = "idle"

\* C1: a sync request answered 200 with newStock = N read levels whose
\* available quantities sum to N, and when it is answered the target's
\* custom.store_stock holds N, whatever the platform answered to the write.
\* (Stated for a request answered before any other arrived.)
C1_SyncOverwritesWithSum ==
    \A r \in Requests :
        (Done(r) /\ IsSync(r) /\ response[r].status = 200 /\ RanAlone(r))
        => /\ response[r].newStock = SumAvailable(levelsRead[r])
           /\ fieldAfter[r] = toString(response[r].newStock)

\* C2: a sync request whose options match no variant on the handle, or none
\* on handle + "-store", and whose storefront queries were answered, is
\* answered 404.
C2_NoMatchIs404 ==
    \A r \in Requests :
        LET handle == request[r].body.handle.v
            options == request[r].body.selectedOptions.v
            noTarget == Satisfying(StorefrontVariants(handle), options) = {}
            noSource == Satisfying(StorefrontVariants(handle \o StoreSuffix),
                                   options) = {}
        IN  (/\ Done(r) /\ IsSync(r) /\ ~Invalid(request[r].body)
             /\ transportError[r] = <<>>
             /\ noTarget \/ noSource)
            => response[r].status = 404

\* C3: getVariantGidByOptions returns the id of the first variant, in the
\* order returned, that has every requested option up to case, and fails
\* with the no-matching-variant error, returning no id, when there is none.
C3_FirstMatchOrNotFound ==
    rvResult.ran =>
        LET S == Satisfying(rvVariants, rvOptions)
        IN  IF S # {}
            THEN rvResult.ok /\ rvResult.id = rvVariants[Earliest(S)].id
            ELSE /\ ~rvResult.ok
                 /\ rvResult.id = <<>>
                 /\ rvResult.message = NoMatchPrefix \o ResolverHandle \o NoMatchSuffix

\* The first variant lacks an option, the second has both, in another case
C3_Witness ==
    /\ rvResult.ran /\ rvResult.ok
    /\ Len(rvVariants) = 2 /\ Len(rvOptions) = 2
    /\ rvOptions[1] # rvOptions[2]
    /\ rvResult.id = rvVariants[2].id

\* The variant a request's handle and options resolve to
ResolvedOn(handle, options) ==
    LET variants == StorefrontVariants(handle)
        S == Satisfying(variants, options)
    IN  IF S = {} THEN <<>> ELSE variants[Earliest(S)].id

TargetOf(r) ==
    ResolvedOn(request[r].body.handle.v, request[r].body.selectedOptions.v)

GotUserErrors(r) ==
    /\ Done(r) /\ IsSync(r) /\ Len(calls[r]) = 4
    /\ writeAnswer[r].error = <<>>
    /\ writeAnswer[r].hasResult
    /\ writeAnswer[r].userErrors # <<>>

\* C5: when the mutation's answer carries userErrors, the request is
\* answered 500 with the metafield-update error carrying the list.
C5_UserErrorsAnswer500 ==
    \A r \in Requests :
        GotUserErrors(r)
        => /\ response[r].status = 500
           /\ response[r].details
                = MetafieldPrefix \o JSONstringify(writeAnswer[r].userErrors)

\* C5, amended: it is answered with the metafield-update error carrying the
\* list, never 200: 404 when the error's text contains "not found", 500
\* otherwise.
C5_UserErrorsAnswer500Or404 ==
    \A r \in Requests :
        GotUserErrors(r)
        => LET text == MetafieldPrefix \o JSONstringify(writeAnswer[r].userErrors)
           IN  IF Contains(text, NotFound)
               THEN response[r].status = 404 /\ response[r].error = text
               ELSE response[r].status = 500 /\ response[r].details = text

C5_Witness ==
    \E r \in Requests : GotUserErrors(r) /\ response[r].status = 404

\* C6: whatever call of a request failed in transport, and with whatever
\* error, the response carries the one uniform error.
C6_UniformTransportError ==
    \A r \in Requests :
        (Done(r) /\ transportError[r] # <<>>)
        => /\ response[r].status = 500
           /\ response[r].details = AdminFailed

\* C7: of two sync requests with the same handle and options, both answered
\* 200, the second arriving after the first was answered, that read the
\* same inventory levels (levels only ever change once, by SellOut), the
\* target's field is the same after each, and so is newStock.
C7_SyncIdempotent ==
    \A r1 \in Requests : \A r2 \in Requests :
        (/\ Done(r1) /\ Done(r2) /\ IsSync(r1) /\ IsSync(r2)
         /\ r1 \in syncedBefore[r2]
         /\ request[r1].body = request[r2].body
         /\ response[r1].status = 200 /\ response[r2].status = 200
         /\ levelsRead[r1] = levelsRead[r2])
        => /\ response[r1].newStock = response[r2].newStock
           /\ fieldAfter[r1] = fieldAfter[r2]

\* The body has no handle, no selectedOptions, or one that is no array
Malformed(body) ==
    \/ body.handle.type = "undefined"
    \/ body.selectedOptions.type = "undefined"
    \/ body.selectedOptions.type # "array"

\* C8: a sync request with a malformed body is answered 400 at once, and no
\* outbound call is issued for it.
C8_MalformedIs400 ==
    \A r \in Requests :
        (pc[r] # "idle" /\ IsSync(r) /\ Malformed(request[r].body))
        => /\ Done(r)
           /\ response[r].status = 400
           /\ calls[r] = <<>>

C8_Witness ==
    \E r \in Requests :
        /\ Done(r) /\ IsSync(r)
        /\ request[r].body.handle.type = "string"
        /\ request[r].body.selectedOptions.type = "object"
        /\ response[r].status = 400

\* The i-th outbound call of a sync request
ExpectedCall(r, i) ==
    CASE i = 1 -> [api |-> "storefront", op |-> "getProduct",
                   arg |-> request[r].body.handle.v]
      [] i = 2 -> [api |-> "storefront", op |-> "getProduct",
                   arg |-> request[r].body.handle.v \o <<"-","s","t","o","r","e">>]
      [] i = 3 -> [api |-> "admin", op |-> "getVariantInventory",
                   arg |-> inventorySourceGid[r]]
      [] OTHER -> [api |-> "admin", op |-> "metafieldsSet",
                   arg |-> metafieldOwnerGid[r]]

\* The number of calls a handler has issued when it waits at pc
Issued(at) ==
    CASE at = "awaitTarget" -> 1
      [] at = "awaitSource" -> 2
      [] at = "awaitInventory" -> 3
      [] OTHER -> 4

\* C9: the outbound calls of a sync request are, in order, the resolution
\* on handle, the resolution on handle + "-store", the inventory read of
\* the source and the write of the target, each at most once; a request
\* answered with an error issued no call after the failed one, and one whose
\* resolution or inventory read failed never wrote a field; each request is
\* sent exactly one response.
C9_CallsInOrderOnce ==
    /\ \A r \in Requests :
         /\ sent[r] = IF Done(r) THEN 1 ELSE 0
         /\ (IsSync(r) /\ pc[r] # "idle") =>
              /\ Len(calls[r]) <= 4
              /\ \A i \in 1..Len(calls[r]) :
                    /\ calls[r][i].api = ExpectedCall(r, i).api
                    /\ calls[r][i].op = ExpectedCall(r, i).op
                    /\ calls[r][i].arg = ExpectedCall(r, i).arg
              /\ ~Done(r) => Len(calls[r]) = Issued(pc[r])
              /\ (Done(r) /\ response[r].status = 200) => Len(calls[r]) = 4
              /\ (Done(r) /\ Len(calls[r]) < 4) =>
                    /\ response[r].status \in {400, 404, 500}
                    /\ \A id \in VariantIds : lastApplied[id] # r
    /\ \A id \in VariantIds :
         IF lastApplied[id] = 0
         THEN field[id] = <<>>
         ELSE Len(calls[lastApplied[id]]) = 4

\* An inventory read failed after both resolutions, and nothing was written
C9_Witness ==
    \E r \in Requests :
        /\ Done(r) /\ IsSync(r)
        /\ Len(calls[r]) = 3
        /\ response[r].status = 500
        /\ field[metafieldOwnerGid[r]] = <<>>

AllFinished == \A r \in Requests : pc[r] \in {"idle", "done"}

\* C10: under any interleaving, a sync request writes to the target it
\* resolved itself, and reports as newStock, the total of the levels it read
\* itself; once all requests have finished, a written field holds the total
\* read by the request whose write the platform applied last.
C10_OwnValuesOnly ==
    /\ \A r \in Requests :
         (IsSync(r) /\ Len(calls[r]) = 4) =>
            /\ calls[r][4].arg = TargetOf(r)
            /\ calls[r][4].value = toString(SumAvailable(levelsRead[r]))
            /\ (Done(r) /\ response[r].status = 200) =>
                  /\ response[r].newStock = SumAvailable(levelsRead[r])
                  /\ response[r].metafieldOwnerGid = TargetOf(r)
    /\ AllFinished =>
         \A id \in VariantIds :
            lastApplied[id] # 0 =>
               field[id] = toString(SumAvailable(levelsRead[lastApplied[id]]))

\* Two overlapping requests read different totals for the same target, and
\* the write of the one that arrived first was applied last
C10_Witness ==
    /\ NumRequests >= 2
    /\ Done(1) /\ Done(2)
    /\ response[1].status = 200 /\ response[2].status = 200
    /\ 1 \notin syncedBefore[2]
    /\ response[1].metafieldOwnerGid = response[2].metafieldOwnerGid
    /\ response[1].newStock # response[2].newStock
    /\ lastApplied[response[1].metafieldOwnerGid] = 1

=============================================================================
